---- MODULE Spec2Model ----
(***************************************************************************)
(* Cutting optimization: the shelf (FFDH) arrangement of the piece form.   *)
(*                                                                         *)
(* The component modelled here is the React component App of the first     *)
(* front end (src/Dockerfile, lines 48-260): its state (pecas,             *)
(* larguraRolo, comprimentoRolo, arranjo, comprimentoUtilizado), its       *)
(* handlers, and calcularArranjo, unfolded into the steps of its two       *)
(* nested loops.                                                           *)
(*                                                                         *)
(* Strings of the number inputs are modelled as tuples: <<>> is the empty  *)
(* string '' and <<n>> is the decimal text of the number n.                *)
(*                                                                         *)
(* Three more components have their own specifications, each leaving the   *)
(* state of the others untouched: the optimize-cutting handler of the      *)
(* Electron shell (src/frontend/public/electron.js, SpecShell), the page   *)
(* of the Electron application (src/frontend/src/App.tsx, SpecJanela) and  *)
(* the backend's strategy selector (SpecSeletor).                          *)
(***************************************************************************)
EXTENDS Integers, Sequences, FiniteSets, TLC

\* ------------------------------------------------------------------ bounds
\* bound: the numbers typed into the fields of the piece form are 1 and 2
Medidas == {1, 2}
\* largest number of piece types registered in pecas
MaxTypes == 2
\* largest roll width typed into the roll-width field
MaxLarguraRolo == 3
\* largest roll length typed into the roll-length field
MaxComprimentoRolo == 3

\* ------------------------------------------------------- program constants
\* useState(1200): the initial roll width
LarguraRoloInicial == 1200

\* ------------------------------------------------------------------- state
VARIABLES
  pecas,                 \* useState: registered piece types
  larguraRolo,           \* useState: roll width (number)
  comprimentoRolo,       \* useState: roll length (string)
  arranjo,               \* useState: last computed arrangement
  comprimentoUtilizado,  \* useState: last computed consumed length
  pc,                    \* position inside calcularArranjo
  todasPecas,            \* local: instances not yet placed
  resultado,             \* local: placements made so far
  x,                     \* local: x-cursor of the open shelf
  y,                     \* local: y of the open shelf
  i,                     \* local: scan index (1-based here, 0-based in JS)
  shelfAltura,           \* local: height of the open shelf
  comprimentoTotal,      \* local: consumed length so far
  config,                \* second front end, useState: the CuttingConfig
  result,                \* second front end, useState: result or null
  loading,               \* second front end, useState: request in flight
  error,                 \* second front end, useState: message or null
  ipc,                   \* the invoke of optimize-cutting awaited by the page
  edicoes,               \* how many edits of config have been made
  tempConfig,            \* shell: content of backend/temp_config.json
  chamadas,              \* shell: the invocations of optimize-cutting
  algoritmo,             \* backend: the strategy name of the request
  resposta               \* backend: the response of the strategy selector

\* the state of the second front end, of the Electron shell and of the
\* backend's selector
janela == <<config, result, loading, error, ipc, edicoes>>
shell  == <<tempConfig, chamadas>>
seletor == <<algoritmo, resposta>>
outros == <<janela, shell, seletor>>

vars == <<pecas, larguraRolo, comprimentoRolo, arranjo, comprimentoUtilizado,
          pc, todasPecas, resultado, x, y, i, shelfAltura, comprimentoTotal,
          outros>>

estado == <<pecas, larguraRolo, comprimentoRolo, arranjo, comprimentoUtilizado>>
locais == <<todasPecas, resultado, x, y, i, shelfAltura, comprimentoTotal>>

\* ----------------------------------------------------------------- strings
\* the empty string ''
StrVazia == <<>>

\* the decimal text of the number n
Str(n) == <<n>>

\* JS Number(s) on the strings of a number input: Number('') is 0
Number(s) == IF s = StrVazia THEN 0 ELSE s[1]

\* JS truthiness of a string: only '' is falsy ('0' is truthy)
Truthy(s) == s # StrVazia

\* JS Infinity, as a value greater than every number of the model
Infinity == -1

\* a <= m where m may be Infinity
Leq(a, m) == m = Infinity \/ a <= m

\* ------------------------------------------------------------- pure helpers
\* the fill with one copy too many
RECURSIVE ArrayFillMaisUm(_, _)
ArrayFillMaisUm(n, v) ==
  IF n = 0 THEN <<v>> ELSE <<v>> \o ArrayFillMaisUm(n - 1, v)

\* Array(n).fill(v)
RECURSIVE ArrayFill(_, _)
ArrayFill(n, v) == IF n = 0 THEN <<>> ELSE <<v>> \o ArrayFill(n - 1, v)

\* the expansion with the copies of a later type put before those of an
\* earlier one
RECURSIVE ExpandirInvertido(_)
ExpandirInvertido(ps) ==
  IF ps = <<>> THEN <<>>
  ELSE ExpandirInvertido(Tail(ps))
       \o ArrayFill(Head(ps).quantidade,
                    [largura |-> Head(ps).largura, altura |-> Head(ps).altura])

\* pecas.flatMap(peca => Array(peca.quantidade).fill({largura, altura}))
RECURSIVE Expandir(_)
Expandir(ps) ==
  IF ps = <<>> THEN <<>>
  ELSE ArrayFill(Head(ps).quantidade,
                 [largura |-> Head(ps).largura, altura |-> Head(ps).altura])
       \o Expandir(Tail(ps))

\* the insertion that puts e before the elements of its own altura
RECURSIVE InserirInstavel(_, _)
InserirInstavel(s, e) ==
  IF s = <<>> THEN <<e>>
  ELSE IF Head(s).altura > e.altura
       THEN <<Head(s)>> \o InserirInstavel(Tail(s), e)
  ELSE <<e>> \o s

\* stable insertion of e into s, s being ordered by altura descending:
\* e goes after every element whose altura is >= its own
RECURSIVE Inserir(_, _)
Inserir(s, e) ==
  IF s = <<>> THEN <<e>>
  ELSE IF Head(s).altura >= e.altura THEN <<Head(s)>> \o Inserir(Tail(s), e)
  ELSE <<e>> \o s

\* the sort left out: the instances stay in expansion order
OrdenarOmitido(s) == s

\* todasPecas.sort((a, b) => b.altura - a.altura): Array.prototype.sort is
\* stable, so instances of equal altura keep their order
RECURSIVE Ordenar(_)
Ordenar(s) ==
  IF s = <<>> THEN <<>>
  ELSE Inserir(Ordenar(SubSeq(s, 1, Len(s) - 1)), s[Len(s)])

\* todasPecas.splice(k, 2): the element after the k-th removed as well
SpliceDois(s, k) == SubSeq(s, 1, k - 1) \o SubSeq(s, k + 2, Len(s))

\* todasPecas.splice(k, 1), k 1-based
Splice(s, k) == SubSeq(s, 1, k - 1) \o SubSeq(s, k + 1, Len(s))

\* the length bound with >= 0 for > 0: a length of 0 bounds the roll at 0
comprimentoMaxZeroLimita ==
  IF Number(comprimentoRolo) >= 0 THEN Number(comprimentoRolo) ELSE Infinity

\* const comprimentoMax = Number(comprimentoRolo) > 0 ? Number(comprimentoRolo) : Infinity
comprimentoMax ==
  IF Number(comprimentoRolo) > 0 THEN Number(comprimentoRolo) ELSE Infinity

\* sum of the altura fields of a sequence of instances
RECURSIVE SomaAlturas(_)
SomaAlturas(s) == IF s = <<>> THEN 0 ELSE Head(s).altura + SomaAlturas(Tail(s))

\* y and comprimentoTotal are unbounded JS numbers.  The model keeps them
\* exact up to LimiteY, a value above the y of every shelf that can hold a
\* piece and above every bounded roll length, and lets them stay there.
LimiteY ==
  LET total == SomaAlturas(Expandir(pecas))
      compr == Number(comprimentoRolo)
  IN  (IF total >= compr THEN total ELSE compr) + 1

\* n + d, kept at LimiteY once it is reached
Somar(n, d) == IF n + d >= LimiteY THEN LimiteY ELSE n + d

\* the width test on the cursor alone, the instance's width forgotten
CabeNaLarguraSoCursor(peca) == x <= larguraRolo

\* line 96: the instance fits the width left in the open shelf
CabeNaLargura(peca) == x + peca.largura <= larguraRolo

\* the length test with < for <=: a shelf ending exactly at the bound fails
CabeNoComprimentoEstrito ==
  comprimentoMax = Infinity \/ y + shelfAltura < comprimentoMax

\* line 98 (and line 111 negated): the open shelf ends within the length
CabeNoComprimento == Leq(y + shelfAltura, comprimentoMax)

\* the placement with the instance turned by 90 degrees
ColocacaoGirada(peca) ==
  [x |-> x, y |-> y, largura |-> peca.altura, altura |-> peca.largura]

\* line 99: the placement pushed for an instance, at the cursor (x, y) and
\* with the instance's own largura and altura; no orientation is chosen
Colocacao(peca) ==
  [x |-> x, y |-> y, largura |-> peca.largura, altura |-> peca.altura]

\* the shelf height taken from the last instance left, the shortest one
AlturaPrateleiraUltima == todasPecas[Len(todasPecas)].altura

\* line 91: the height of a new shelf, that of the first instance left
AlturaPrateleira == todasPecas[1].altura

\* y carried over from the previous run instead of starting at 0
YInicialAnterior == comprimentoUtilizado

\* line 86: let y = 0
YInicial == 0

\* ------------------------------------------------------------ input domains
\* texts submitted from the fields of the piece form when the page runs in a
\* browser: each input declares min={1}, so a submitted number is >= 1; the
\* empty text is what the guard of adicionarPeca tests for
TextosForm == {StrVazia} \cup {Str(n) : n \in Medidas}

\* texts handed to adicionarPeca when nothing filters them: its own guard
\* only tests for the empty text, and '0' is not empty
TextosLivres == TextosForm \cup {Str(0)}

\* texts typed into the roll-width field
TextosLargura == {StrVazia} \cup {Str(n) : n \in 1..MaxLarguraRolo}

\* texts typed into the roll-length field
TextosComprimento == {StrVazia} \cup {Str(n) : n \in 0..MaxComprimentoRolo}

\* ------------------------------------- second front end, shell and backend
\* null, and a value that is not null
Null == <<>>
Algum(v) == <<v>>

\* src/frontend/src/App.tsx lines 32-37: the initial CuttingConfig; a piece
\* is [width, height, quantity, allow_rotation, description] (the accent of
\* the second description is dropped)
ConfigInicial ==
  [stock_width  |-> 1000,
   stock_height |-> 800,
   pieces       |-> << <<200, 300, 2, TRUE, "Prancha Grande">>,
                       <<150, 200, 3, TRUE, "Prancha Media">> >>,
   time_limit   |-> 60]

\* the README's default strategy name
AlgoritmoPadrao == "fast"

\* the state of the second front end, of the shell and of the backend after
\* construction
InitOutros ==
  /\ config = ConfigInicial
  /\ result = Null
  /\ loading = FALSE
  /\ error = Null
  /\ ipc = Null
  /\ edicoes = 0
  /\ tempConfig = Null
  /\ chamadas = <<>>
  /\ algoritmo = AlgoritmoPadrao
  /\ resposta = Null

\* ------------------------------------------------------------------- init
Init ==
  /\ pecas = <<>>
  /\ larguraRolo = LarguraRoloInicial
  /\ comprimentoRolo = StrVazia
  /\ arranjo = <<>>
  /\ comprimentoUtilizado = 0
  /\ pc = "idle"
  /\ todasPecas = <<>>
  /\ resultado = <<>>
  /\ x = 0
  /\ y = 0
  /\ i = 0
  /\ shelfAltura = 0
  /\ comprimentoTotal = 0
  /\ InitOutros

\* ---------------------------------------------------------------- handlers
\* handleChange + adicionarPeca: the form holds the texts fl, fa, fq when it
\* is submitted.  The form state itself is only the buffer of these texts
\* (handleChange stores any text, adicionarPeca clears it), so the texts are
\* the inputs of the submit.
adicionarPeca(fl, fa, fq) ==
  /\ pc = "idle"
  /\ Len(pecas) < MaxTypes
  /\ IF ~Truthy(fl) \/ ~Truthy(fa) \/ ~Truthy(fq)
     THEN UNCHANGED pecas
     ELSE pecas' = Append(pecas, [largura    |-> Number(fl),
                                  altura     |-> Number(fa),
                                  quantidade |-> Number(fq)])
  /\ UNCHANGED <<larguraRolo, comprimentoRolo, arranjo, comprimentoUtilizado,
                 pc, locais>>
  /\ UNCHANGED outros

\* onChange of the roll-width input: setLarguraRolo(Number(e.target.value))
setLarguraRolo(t) ==
  /\ pc = "idle"
  /\ larguraRolo' = Number(t)
  /\ UNCHANGED <<pecas, comprimentoRolo, arranjo, comprimentoUtilizado,
                 pc, locais>>
  /\ UNCHANGED outros

\* onChange of the roll-length input: setComprimentoRolo(e.target.value)
setComprimentoRolo(t) ==
  /\ pc = "idle"
  /\ comprimentoRolo' = t
  /\ UNCHANGED <<pecas, larguraRolo, arranjo, comprimentoUtilizado,
                 pc, locais>>
  /\ UNCHANGED outros

\* --------------------------------------------------------- calcularArranjo
\* click on "Calcular arranjo" (disabled while pecas is empty): line 82,
\* the expansion by quantity
calcularArranjo ==
  /\ pc = "idle"
  /\ Len(pecas) # 0
  /\ todasPecas' = Expandir(pecas)
  /\ pc' = "sort"
  /\ UNCHANGED <<estado, resultado, x, y, i, shelfAltura, comprimentoTotal>>
  /\ UNCHANGED outros

\* lines 84-88: the sort and the initialisation of the locals
OrdenarPecas ==
  /\ pc = "sort"
  /\ todasPecas' = Ordenar(todasPecas)
  /\ resultado' = <<>>
  /\ y' = YInicial
  /\ comprimentoTotal' = 0
  /\ pc' = "while"
  /\ UNCHANGED <<estado, x, i, shelfAltura>>
  /\ UNCHANGED outros

\* the shelf opened with the x-cursor left where the previous shelf ended
AbrirPrateleiraCursorMantido ==
  /\ pc = "while"
  /\ Len(todasPecas) > 0
  /\ shelfAltura' = AlturaPrateleira
  /\ i' = 1
  /\ pc' = "scan"
  /\ UNCHANGED <<estado, todasPecas, resultado, x, y, comprimentoTotal>>
  /\ UNCHANGED outros

\* lines 89-92: the outer loop opens a shelf
AbrirPrateleira ==
  /\ pc = "while"
  /\ Len(todasPecas) > 0
  /\ x' = 0
  /\ shelfAltura' = AlturaPrateleira
  /\ i' = 1
  /\ pc' = "scan"
  /\ UNCHANGED <<estado, todasPecas, resultado, y, comprimentoTotal>>
  /\ UNCHANGED outros

\* line 89: the outer loop ends, nothing is left
FimPecas ==
  /\ pc = "while"
  /\ Len(todasPecas) = 0
  /\ pc' = "return"
  /\ UNCHANGED <<estado, locais>>
  /\ UNCHANGED outros

\* the placement with the x-cursor advanced by the instance's altura
ColocarPecaAvancaAltura ==
  /\ pc = "scan"
  /\ i <= Len(todasPecas)
  /\ LET peca == todasPecas[i] IN
       /\ CabeNaLargura(peca)
       /\ CabeNoComprimento
       /\ resultado' = Append(resultado, Colocacao(peca))
       /\ x' = x + peca.altura
       /\ todasPecas' = Splice(todasPecas, i)
  /\ UNCHANGED <<estado, pc, y, i, shelfAltura, comprimentoTotal>>
  /\ UNCHANGED outros

\* lines 96-102: the instance fits the width and the length: place it
ColocarPeca ==
  /\ pc = "scan"
  /\ i <= Len(todasPecas)
  /\ LET peca == todasPecas[i] IN
       /\ CabeNaLargura(peca)
       /\ CabeNoComprimento
       /\ resultado' = Append(resultado, Colocacao(peca))
       /\ x' = x + peca.largura
       /\ todasPecas' = Splice(todasPecas, i)
  /\ UNCHANGED <<estado, pc, y, i, shelfAltura, comprimentoTotal>>
  /\ UNCHANGED outros

\* lines 103-106: the instance fits the width but the shelf exceeds the
\* length: end the scan
PararVarredura ==
  /\ pc = "scan"
  /\ i <= Len(todasPecas)
  /\ CabeNaLargura(todasPecas[i])
  /\ ~CabeNoComprimento
  /\ i' = Len(todasPecas) + 1
  /\ UNCHANGED <<estado, pc, todasPecas, resultado, x, y, shelfAltura,
                 comprimentoTotal>>
  /\ UNCHANGED outros

\* the scan ended at the first instance that does not fit the width
PularPecaEParar ==
  /\ pc = "scan"
  /\ i <= Len(todasPecas)
  /\ ~CabeNaLargura(todasPecas[i])
  /\ i' = Len(todasPecas) + 1
  /\ UNCHANGED <<estado, pc, todasPecas, resultado, x, y, shelfAltura,
                 comprimentoTotal>>
  /\ UNCHANGED outros

\* lines 107-109: the instance does not fit the width: try the next one
PularPeca ==
  /\ pc = "scan"
  /\ i <= Len(todasPecas)
  /\ ~CabeNaLargura(todasPecas[i])
  /\ i' = i + 1
  /\ UNCHANGED <<estado, pc, todasPecas, resultado, x, y, shelfAltura,
                 comprimentoTotal>>
  /\ UNCHANGED outros

\* lines 111-113: the scan is over; break, or advance to the next shelf
FecharPrateleira ==
  /\ pc = "scan"
  /\ i > Len(todasPecas)
  /\ IF ~CabeNoComprimento
     THEN /\ pc' = "return"
          /\ UNCHANGED <<y, comprimentoTotal>>
     ELSE /\ y' = Somar(y, shelfAltura)
          /\ comprimentoTotal' = Somar(comprimentoTotal, shelfAltura)
          /\ pc' = "while"
  /\ UNCHANGED <<estado, todasPecas, resultado, x, i, shelfAltura>>
  /\ UNCHANGED outros

\* lines 115-116: setArranjo(resultado), setComprimentoUtilizado(comprimentoTotal);
\* the locals go out of scope
Retornar ==
  /\ pc = "return"
  /\ arranjo' = resultado
  /\ comprimentoUtilizado' = comprimentoTotal
  /\ pc' = "idle"
  /\ todasPecas' = <<>>
  /\ resultado' = <<>>
  /\ x' = 0
  /\ y' = 0
  /\ i' = 0
  /\ shelfAltura' = 0
  /\ comprimentoTotal' = 0
  /\ UNCHANGED <<pecas, larguraRolo, comprimentoRolo>>
  /\ UNCHANGED outros

\* the steps of one execution of calcularArranjo after the click
Passo ==
  \/ OrdenarPecas
  \/ AbrirPrateleira
  \/ FimPecas
  \/ ColocarPeca
  \/ PararVarredura
  \/ PularPeca
  \/ FecharPrateleira
  \/ Retornar

\* submit of the piece form with its texts taken from textos
Submeter(textos) ==
  \E fl \in textos, fa \in textos, fq \in textos : adicionarPeca(fl, fa, fq)

\* change of the roll-width field
MudarLargura == \E t \in TextosLargura : setLarguraRolo(t)

\* change of the roll-length field
MudarComprimento == \E t \in TextosComprimento : setComprimentoRolo(t)

Next ==
  \/ Submeter(TextosForm)
  \/ MudarLargura
  \/ MudarComprimento
  \/ calcularArranjo
  \/ Passo

Spec == Init /\ [][Next]_vars

\* the page once calcularArranjo is called runs it without interruption
FairSpec == Spec /\ WF_vars(Passo)

\* the same component with the form texts unfiltered
NextLivre ==
  \/ Submeter(TextosLivres)
  \/ MudarLargura
  \/ MudarComprimento
  \/ calcularArranjo
  \/ Passo

SpecLivre == Init /\ [][NextLivre]_vars

\* ------------------------------------------------- the documented scenarios
\* Scenario A of the README: stock 1000 x 800
LarguraA == 1000
ComprimentoA == 800

\* the piece types of the README example and the piece of scenario B
TipoA1 == [largura |-> 200, altura |-> 300, quantidade |-> 2]
TipoA2 == [largura |-> 150, altura |-> 200, quantidade |-> 3]
TipoA3 == [largura |-> 100, altura |-> 100, quantidade |-> 5]
TipoB  == [largura |-> 600, altura |-> 400, quantidade |-> 1]

PecasA == <<TipoA1, TipoA2, TipoA3>>
PecasB == <<TipoB>>

TiposCenario == {TipoA1, TipoA2, TipoA3, TipoB}

\* the documented piece lists, every list of up to three of their types, and
\* the lists of a single instance of one type
ListasCenario ==
  {PecasA, PecasB}
    \cup {<<t>> : t \in TiposCenario}
    \cup {<<[t EXCEPT !.quantidade = 1]>> : t \in TiposCenario}
    \cup {<<t, u>> : t \in TiposCenario, u \in TiposCenario}
    \cup {<<t, u, v>> : t \in TiposCenario, u \in TiposCenario,
                        v \in TiposCenario}

\* the component with a documented problem entered: the roll is 1000 or 1200
\* wide, its length is unbounded ('' or '0') or 800
InitCenario ==
  /\ pecas \in ListasCenario
  /\ larguraRolo \in {LarguraA, LarguraRoloInicial}
  /\ comprimentoRolo \in {StrVazia, Str(0), Str(ComprimentoA)}
  /\ arranjo = <<>>
  /\ comprimentoUtilizado = 0
  /\ pc = "idle"
  /\ todasPecas = <<>>
  /\ resultado = <<>>
  /\ x = 0
  /\ y = 0
  /\ i = 0
  /\ shelfAltura = 0
  /\ comprimentoTotal = 0
  /\ InitOutros

NextCenario ==
  \/ calcularArranjo
  \/ Passo

SpecCenario == InitCenario /\ [][NextCenario]_vars

\* lines 115-116: the result of calcularArranjo is the arrangement and the
\* consumed length; the instances left in todasPecas are not published, so
\* the unplaced instances a result reports are none
naoColocadasInformadas == <<>>

\* ----------------------------------------------------- Metrics Aggregator
\* section 4.6 of the specification; its code (the backend) is not among the
\* sources, so these follow the specification.
\* usedArea: the sum of the areas of the placements ps
RECURSIVE AreaUsada(_)
AreaUsada(ps) ==
  IF ps = <<>> THEN 0
  ELSE Head(ps).largura * Head(ps).altura + AreaUsada(Tail(ps))

\* totalArea: stockWidth x stockHeight, or stockWidth x consumedLength when
\* the length is unbounded
AreaTotal(largura, texto, consumido) ==
  IF Number(texto) > 0 THEN largura * Number(texto) ELSE largura * consumido

\* wastePercentage = 100 x (1 - usedArea/totalArea), in tenths of a percent
DesperdicioDecimos(usada, total) == (1000 * (total - usada)) \div total

\* ------------------------------------------------------ the Electron shell
\* src/frontend/public/electron.js, ipcMain.handle('optimize-cutting').
\* Texts are sequences of their parts, so that a prefix put before a text
\* shows; accents are dropped.

\* bound: how many invocations of optimize-cutting a behaviour follows
MaxChamadas == 2

\* line 79: the delay of the shell's timer, in milliseconds
TimeoutMs == 30000

\* the clock of the model advances in halves of the shell's delay
Quantum == TimeoutMs \div 2

\* line 78
MsgTimeout == <<"Timeout: Python process demorou muito para responder">>
\* line 130
MsgNaoProcessou == <<"Nao foi possivel processar o resultado do Python">>
\* line 138: `Erro no Python: ${error}`
MsgErroNoPython(stderr) == <<"Erro no Python: ">> \o stderr
\* line 62
MsgScriptAusente == <<"Script Python nao encontrado: ", "backend/main.py">>
\* line 144: `Erro ao executar otimizacao: ${error.message}`
MsgErroGeral(m) == <<"Erro ao executar otimizacao: ">> \o m

\* the promise returned by the handler
Pendente      == [estado |-> "pending",  valor |-> Null, motivo |-> <<>>]
Resolvida(v)  == [estado |-> "resolved", valor |-> Algum(v), motivo |-> <<>>]
Rejeitada(m)  == [estado |-> "rejected", valor |-> Null, motivo |-> m]

\* what a backend process leaves when it ends: its exit code (-1 stands for
\* the null code of a process ended by a signal), the JSON object found in
\* its stdout if any, and its stderr
Saida(code, json, stderr) == [code |-> code, json |-> json, stderr |-> stderr]

\* the response object of the backend (section 6 of the specification):
\* success, is_optimal and, on failure, error
Json(success, otimo, erro) ==
  [success |-> success, is_optimal |-> otimo, error |-> erro]

\* the ends of a backend process.  The backend is not among the sources;
\* these follow sections 5 to 7 of the specification: a result, optimal or
\* best-effort, a structured failure, and, as for any process, an output
\* that holds no JSON or an exit code that is not 0
SaidaOtima         == Saida(0, Algum(Json(TRUE, TRUE, <<>>)), <<>>)
SaidaMelhorEsforco == Saida(0, Algum(Json(TRUE, FALSE, <<>>)), <<>>)
SaidaFalha(tipo)   == Saida(0, Algum(Json(FALSE, FALSE, <<tipo>>)), <<>>)
SaidaIlegivel      == Saida(0, Null, <<>>)
SaidaQueda         == Saida(1, Null, <<"Traceback">>)
\* pythonProcess.kill(): ended by SIGTERM
SaidaMorto         == Saida(-1, Null, <<>>)

\* the request contract of section 6 of the specification
Contrato(cfg) ==
  /\ cfg.stock_width > 0
  /\ cfg.stock_height >= 0
  /\ \A k \in DOMAIN cfg.pieces :
       cfg.pieces[k][1] > 0 /\ cfg.pieces[k][2] > 0 /\ cfg.pieces[k][3] >= 1
  /\ cfg.time_limit > 0

\* the time limit of the request cfg has elapsed after ms milliseconds
LimiteAtingido(cfg, ms) == cfg.time_limit * 1000 <= ms

\* the ends open to a backend run on the configuration cfg, ms milliseconds
\* after its start (sections 5 and 7 of the specification): a request
\* outside the contract fails with InvalidInput; at the time limit the run
\* returns its best solution so far
SaidasPossiveis(cfg, ms) ==
  IF ~Contrato(cfg) THEN {SaidaFalha("InvalidInput")}
  ELSE IF LimiteAtingido(cfg, ms) THEN {SaidaMelhorEsforco}
  ELSE {SaidaOtima, SaidaMelhorEsforco, SaidaFalha("InfeasibleProblem"),
        SaidaIlegivel, SaidaQueda}

\* lines 101-139: what the close handler settles the promise with
Liquidar(saida) ==
  IF saida.code = 0
  THEN IF saida.json # Null
       THEN Resolvida(saida.json[1])
       ELSE Rejeitada(MsgNaoProcessou)
  ELSE Rejeitada(MsgErroNoPython(saida.stderr))

\* the configurations the shell is invoked with: the initial one of the page
\* (time limit 60 seconds) and the same with a time limit of 30 seconds
ConfigsPedido ==
  {ConfigInicial, [ConfigInicial EXCEPT !.time_limit = 30]}

\* everything but the shell
foraDoShell == <<pecas, larguraRolo, comprimentoRolo, arranjo,
                 comprimentoUtilizado, pc, todasPecas, resultado, x, y, i,
                 shelfAltura, comprimentoTotal, janela, seletor>>

\* lines 55-79: the handler up to the return of its promise: main.py is
\* there, the configuration is written to temp_config.json, the process is
\* spawned and the timer armed
Invocar(cfg) ==
  /\ Len(chamadas) < MaxChamadas
  /\ tempConfig' = Algum(cfg)
  /\ chamadas' = Append(chamadas,
       [config |-> cfg, pythonProcess |-> "spawned", lido |-> Null,
        saida |-> Null, timeout |-> "armed", promise |-> Pendente,
        decorrido |-> 0])
  /\ UNCHANGED foraDoShell

\* lines 61-63 and 142-145: main.py is missing; the handler throws before
\* it writes or spawns anything
InvocarSemScript(cfg) ==
  /\ Len(chamadas) < MaxChamadas
  /\ chamadas' = Append(chamadas,
       [config |-> cfg, pythonProcess |-> "nenhum", lido |-> Null,
        saida |-> Null, timeout |-> "nenhum",
        promise |-> Rejeitada(MsgErroGeral(MsgScriptAusente)),
        decorrido |-> 0])
  /\ UNCHANGED <<tempConfig, foraDoShell>>

\* the spawned process opens the file named by --config (line 72): it reads
\* what the file holds at that moment, and fails when the file is gone
LerConfig(k) ==
  /\ chamadas[k].pythonProcess = "spawned"
  /\ IF tempConfig = Null
     THEN chamadas' = [chamadas EXCEPT ![k].pythonProcess = "exited",
                                       ![k].saida = Algum(SaidaQueda)]
     ELSE chamadas' = [chamadas EXCEPT ![k].pythonProcess = "running",
                                       ![k].lido = tempConfig]
  /\ UNCHANGED <<tempConfig, foraDoShell>>

\* the backend run ends with the output s
Responder(k, s) ==
  /\ chamadas[k].pythonProcess = "running"
  /\ s \in SaidasPossiveis(chamadas[k].lido[1], chamadas[k].decorrido)
  /\ chamadas' = [chamadas EXCEPT ![k].pythonProcess = "exited",
                                  ![k].saida = Algum(s)]
  /\ UNCHANGED <<tempConfig, foraDoShell>>

\* lines 76-79: the timer fires: pythonProcess.kill() and reject
Timeout(k) ==
  /\ chamadas[k].timeout = "armed"
  /\ chamadas[k].decorrido >= TimeoutMs
  /\ chamadas' =
       [chamadas EXCEPT
          ![k].timeout = "fired",
          ![k].pythonProcess =
             IF @ \in {"spawned", "running"} THEN "exited" ELSE @,
          ![k].saida =
             IF chamadas[k].pythonProcess \in {"spawned", "running"}
             THEN Algum(SaidaMorto) ELSE @,
          ![k].promise =
             IF @.estado = "pending" THEN Rejeitada(MsgTimeout) ELSE @]
  /\ UNCHANGED <<tempConfig, foraDoShell>>

\* the close handler settling whatever the promise already holds
CloseSempreLiquida(k) ==
  /\ chamadas[k].pythonProcess = "exited"
  /\ tempConfig' = Null
  /\ chamadas' =
       [chamadas EXCEPT
          ![k].pythonProcess = "closed",
          ![k].timeout = IF @ = "armed" THEN "cleared" ELSE @,
          ![k].promise = Liquidar(chamadas[k].saida[1])]
  /\ UNCHANGED foraDoShell

\* lines 91-140: the close event of the process: clearTimeout, unlinkSync of
\* temp_config.json (an error of it is caught), and the settling; resolve
\* and reject on a settled promise do nothing
Close(k) ==
  /\ chamadas[k].pythonProcess = "exited"
  /\ tempConfig' = Null
  /\ chamadas' =
       [chamadas EXCEPT
          ![k].pythonProcess = "closed",
          ![k].timeout = IF @ = "armed" THEN "cleared" ELSE @,
          ![k].promise =
             IF @.estado = "pending" THEN Liquidar(chamadas[k].saida[1])
             ELSE @]
  /\ UNCHANGED foraDoShell

\* the invocation k has a live process or an armed timer
Ativa(k) ==
  \/ chamadas[k].pythonProcess \in {"spawned", "running"}
  \/ chamadas[k].timeout = "armed"

\* time passes: a timer that is due fires before, and a backend run that
\* has reached its time limit ends before (section 5 of the specification)
Tick ==
  /\ \E k \in DOMAIN chamadas : Ativa(k)
  /\ \A k \in DOMAIN chamadas :
       /\ chamadas[k].timeout = "armed" => chamadas[k].decorrido < TimeoutMs
       /\ chamadas[k].pythonProcess = "running" =>
            ~LimiteAtingido(chamadas[k].lido[1], chamadas[k].decorrido)
  /\ chamadas' = [k \in DOMAIN chamadas |->
                    IF Ativa(k)
                    THEN [chamadas[k] EXCEPT !.decorrido = @ + Quantum]
                    ELSE chamadas[k]]
  /\ UNCHANGED <<tempConfig, foraDoShell>>

NextShell ==
  \/ \E cfg \in ConfigsPedido : Invocar(cfg)
  \/ \E cfg \in ConfigsPedido : InvocarSemScript(cfg)
  \/ \E k \in DOMAIN chamadas : LerConfig(k)
  \/ \E k \in DOMAIN chamadas :
       \E s \in SaidasPossiveis(ConfigInicial, 0)
                  \cup {SaidaMelhorEsforco, SaidaFalha("InvalidInput")} :
         Responder(k, s)
  \/ \E k \in DOMAIN chamadas : Timeout(k)
  \/ \E k \in DOMAIN chamadas : Close(k)
  \/ Tick

SpecShell == Init /\ [][NextShell]_vars

\* the steps Node and the operating system take by themselves: the process
\* opens its file and ends, a due timer fires (line 76), the close event is
\* delivered (line 91), time passes
AndarShell ==
  \/ \E k \in DOMAIN chamadas : LerConfig(k)
  \/ \E k \in DOMAIN chamadas :
       \E s \in SaidasPossiveis(ConfigInicial, 0)
                  \cup {SaidaMelhorEsforco, SaidaFalha("InvalidInput")} :
         Responder(k, s)
  \/ \E k \in DOMAIN chamadas : Timeout(k)
  \/ \E k \in DOMAIN chamadas : Close(k)
  \/ Tick

\* the event loop keeps running: timers that are due and events that are
\* pending are eventually handled
FairSpecShell == SpecShell /\ WF_vars(AndarShell)

\* ----------------------------------------------------- the second front end
\* src/frontend/src/App.tsx: the page of the Electron application.

\* bound: how many edits of the configuration a behaviour follows
MaxEdicoes == 2
\* bound: the longest piece list the page is given
MaxPecasUI == 3

\* bound: the texts typed into the number inputs (none declares a min)
TextosNumero == {StrVazia, Str(-1), Str(0), Str(500)}

\* line 6: the page runs inside Electron
isElectron == TRUE

\* line 60
MsgForaDoElectron == <<"Esta aplicacao deve ser executada no Electron">>

\* parseInt(e.target.value) || d: NaN (the empty text) and 0 give d
ParseIntOu(t, d) == IF t = StrVazia \/ t[1] = 0 THEN d ELSE t[1]

\* line 137: the piece appended by addPiece (accent dropped)
NovaPeca == <<100, 100, 1, TRUE, "Nova Peca">>

\* the configurations found in the files handed to load-config: what the
\* page saved before, or any other JSON
ConfigsArquivo ==
  {ConfigInicial,
   [stock_width |-> 0, stock_height |-> 0, pieces |-> <<>>, time_limit |-> 0]}

\* everything but the second front end
foraDaJanela == <<pecas, larguraRolo, comprimentoRolo, arranjo,
                  comprimentoUtilizado, pc, todasPecas, resultado, x, y, i,
                  shelfAltura, comprimentoTotal, shell, seletor>>

\* an edit of config: setConfig(prev => novo)
setConfig(novo) ==
  /\ edicoes < MaxEdicoes
  /\ edicoes' = edicoes + 1
  /\ config' = novo
  /\ UNCHANGED <<result, loading, error, ipc, foraDaJanela>>

\* line 182: onChange of the stock width
setStockWidth(t) ==
  setConfig([config EXCEPT !.stock_width = ParseIntOu(t, 0)])

\* line 190: onChange of the stock height
setStockHeight(t) ==
  setConfig([config EXCEPT !.stock_height = ParseIntOu(t, 0)])

\* line 258: onChange of the time limit
setTimeLimit(t) ==
  setConfig([config EXCEPT !.time_limit = ParseIntOu(t, 60)])

\* lines 134-139
addPiece ==
  /\ Len(config.pieces) < MaxPecasUI
  /\ setConfig([config EXCEPT !.pieces = Append(@, NovaPeca)])

\* lines 141-146: the pieces but the one at index (1-based here)
removePiece(index) ==
  /\ index \in DOMAIN config.pieces
  /\ setConfig([config EXCEPT !.pieces =
       SubSeq(@, 1, index - 1) \o SubSeq(@, index + 1, Len(@))])

\* lines 148-161: field is 1..5 here, 0..4 in the source
updatePiece(index, field, value) ==
  /\ index \in DOMAIN config.pieces
  /\ setConfig([config EXCEPT !.pieces[index][field] = value])

\* lines 205, 212, 219: onChange of a number input of a piece
MudarNumeroDaPeca ==
  \E index \in 1..MaxPecasUI, field \in 1..3, t \in TextosNumero :
    updatePiece(index, field, ParseIntOu(t, 0))

\* line 227: onChange of the rotation checkbox of a piece
MudarRotacaoDaPeca ==
  \E index \in 1..MaxPecasUI, b \in BOOLEAN : updatePiece(index, 4, b)

\* line 236: onChange of the description of a piece
MudarDescricaoDaPeca ==
  \E index \in 1..MaxPecasUI : updatePiece(index, 5, "")

\* lines 92-109: the configuration of the chosen file replaces config
handleLoadConfig(cfg) ==
  /\ isElectron
  /\ setConfig(cfg)

\* the click on Otimizar with a button that is never disabled
handleOptimizeSempreHabilitado ==
  /\ IF ~isElectron
     THEN /\ error' = Algum(MsgForaDoElectron)
          /\ UNCHANGED <<loading, ipc>>
     ELSE /\ loading' = TRUE
          /\ error' = Null
          /\ ipc' = Algum([config |-> config, saida |-> Null,
                           promise |-> Pendente, entregue |-> FALSE])
  /\ result' = Null
  /\ UNCHANGED <<config, edicoes, foraDaJanela>>

\* lines 55-64: the click on Otimizar (the button is disabled while loading,
\* line 266) up to the await: the current config is handed to the shell
handleOptimize ==
  /\ ~loading
  /\ IF ~isElectron
     THEN /\ error' = Algum(MsgForaDoElectron)
          /\ UNCHANGED <<loading, ipc>>
     ELSE /\ loading' = TRUE
          /\ error' = Null
          /\ ipc' = Algum([config |-> config, saida |-> Null,
                           promise |-> Pendente, entregue |-> FALSE])
  /\ result' = Null
  /\ UNCHANGED <<config, edicoes, foraDaJanela>>

\* the invocation is pending
IpcPendente == ipc # Null /\ ipc[1].promise.estado = "pending"

\* the shell settles the invocation after the backend run ended with s
\* (electron.js lines 91-140)
LiquidarIpc(s) ==
  /\ IpcPendente
  /\ ipc' = Algum([ipc[1] EXCEPT !.saida = Algum(s), !.promise = Liquidar(s)])
  /\ UNCHANGED <<config, result, loading, error, edicoes, foraDaJanela>>

\* the shell's timer settles the invocation (electron.js lines 76-79)
TimeoutIpc ==
  /\ IpcPendente
  /\ ipc' = Algum([ipc[1] EXCEPT !.saida = Algum(SaidaMorto),
                                 !.promise = Rejeitada(MsgTimeout)])
  /\ UNCHANGED <<config, result, loading, error, edicoes, foraDaJanela>>

\* the shell finds no main.py (electron.js lines 61-63, 142-145)
SemScriptIpc ==
  /\ IpcPendente
  /\ ipc' = Algum([ipc[1] EXCEPT
                     !.promise = Rejeitada(MsgErroGeral(MsgScriptAusente))])
  /\ UNCHANGED <<config, result, loading, error, edicoes, foraDaJanela>>

\* handleOptimize after the await without its finally block
AposAwaitSemFinally ==
  /\ ipc # Null
  /\ ipc[1].promise.estado # "pending"
  /\ ~ipc[1].entregue
  /\ IF ipc[1].promise.estado = "resolved"
     THEN result' = ipc[1].promise.valor /\ UNCHANGED error
     ELSE error' = Algum(ipc[1].promise.motivo) /\ UNCHANGED result
  /\ ipc' = Algum([ipc[1] EXCEPT !.entregue = TRUE])
  /\ UNCHANGED <<config, loading, edicoes, foraDaJanela>>

\* lines 64-71: handleOptimize after the await: setResult of what the
\* promise resolved with, or setError of the message it rejected with, and
\* setLoading(false)
AposAwait ==
  /\ ipc # Null
  /\ ipc[1].promise.estado # "pending"
  /\ ~ipc[1].entregue
  /\ IF ipc[1].promise.estado = "resolved"
     THEN result' = ipc[1].promise.valor /\ UNCHANGED error
     ELSE error' = Algum(ipc[1].promise.motivo) /\ UNCHANGED result
  /\ loading' = FALSE
  /\ ipc' = Algum([ipc[1] EXCEPT !.entregue = TRUE])
  /\ UNCHANGED <<config, edicoes, foraDaJanela>>

NextJanela ==
  \/ \E t \in TextosNumero : setStockWidth(t)
  \/ \E t \in TextosNumero : setStockHeight(t)
  \/ \E t \in TextosNumero : setTimeLimit(t)
  \/ addPiece
  \/ \E index \in 1..MaxPecasUI : removePiece(index)
  \/ MudarNumeroDaPeca
  \/ MudarRotacaoDaPeca
  \/ MudarDescricaoDaPeca
  \/ \E cfg \in ConfigsArquivo : handleLoadConfig(cfg)
  \/ handleOptimize
  \/ \E s \in {SaidaOtima, SaidaMelhorEsforco, SaidaFalha("InvalidInput"),
               SaidaFalha("InfeasibleProblem"), SaidaIlegivel, SaidaQueda} :
       /\ IpcPendente
       /\ \E ms \in {0, TimeoutMs} : s \in SaidasPossiveis(ipc[1].config, ms)
       /\ LiquidarIpc(s)
  \/ TimeoutIpc
  \/ SemScriptIpc
  \/ AposAwait

SpecJanela == Init /\ [][NextJanela]_vars

\* ------------------------------------------------------ Strategy Selector
\* section 4.6 of the specification; the selector is backend code that is
\* not among the sources, which only name the strategies (README, lines
\* 147-153).  The one strategy whose code is among the sources, the shelf
\* arrangement of calcularArranjo, stands for whichever strategy is selected.

\* the strategy names without the last one of the list
AlgoritmosSemSmart == {"milp", "simple", "fast", "improved"}

\* README lines 149-153: the available strategies
AlgoritmosDisponiveis == {"milp", "simple", "fast", "improved", "smart"}

\* the algorithm names requests carry: the listed ones, the name of
\* scenario C, and the empty name
NomesPedidos ==
  {"milp", "simple", "fast", "improved", "smart", "unknown_algo", ""}

\* the structured failure of the selector
FalhaUnknownAlgorithm == Json(FALSE, FALSE, <<"UnknownAlgorithm">>)

\* a request with the algorithm name nome reaches the selector: a listed
\* name starts the strategy on the request's pieces, any other name fails
\* at once
Selecionar(nome) ==
  /\ pc = "idle"
  /\ Len(pecas) # 0
  /\ algoritmo' = nome
  /\ IF nome \in AlgoritmosDisponiveis
     THEN /\ resposta' = Null
          /\ todasPecas' = Expandir(pecas)
          /\ pc' = "sort"
     ELSE /\ resposta' = Algum(FalhaUnknownAlgorithm)
          /\ UNCHANGED <<todasPecas, pc>>
  /\ UNCHANGED <<estado, resultado, x, y, i, shelfAltura, comprimentoTotal,
                 janela, shell>>

NextSeletor ==
  \/ \E nome \in NomesPedidos : Selecionar(nome)
  \/ Passo

SpecSeletor == InitCenario /\ [][NextSeletor]_vars

\* =================================================================== claims
\* the piece types registered all have positive dimensions and quantity
PecasPositivas ==
  \A k \in DOMAIN pecas :
    pecas[k].largura > 0 /\ pecas[k].altura > 0 /\ pecas[k].quantidade >= 1

\* section 4.2 of the specification: two rectangles overlap (touching edges
\* are not overlap)
Sobrepoe(a, b) ==
  /\ a.x < b.x + b.largura
  /\ b.x < a.x + a.largura
  /\ a.y < b.y + b.altura
  /\ b.y < a.y + a.altura

\* no two placements of the sequence ps overlap
SemSobreposicao(ps) ==
  \A a \in DOMAIN ps : \A b \in DOMAIN ps : a < b => ~Sobrepoe(ps[a], ps[b])

\* C1: for piece lists with positive dimensions and every roll, bounded or
\* not, no two placements of calcularArranjo overlap: neither after any
\* placement step of the run (resultado) nor in the published arrangement
\* (arranjo).
C1_SemSobreposicao ==
  PecasPositivas => SemSobreposicao(resultado) /\ SemSobreposicao(arranjo)

\* C1 witness: a run on a bounded roll has placed instances of different
\* heights side by side in one shelf and another instance in a later shelf.
C1_Witness ==
  /\ pc = "scan"
  /\ comprimentoMax # Infinity
  /\ \E a \in DOMAIN resultado : \E b \in DOMAIN resultado :
     \E c \in DOMAIN resultado :
       /\ resultado[a].y = resultado[b].y
       /\ resultado[a].x < resultado[b].x
       /\ resultado[a].altura > resultado[b].altura
       /\ resultado[c].y > resultado[a].y
       /\ resultado[c].x < resultado[b].x + resultado[b].largura

\* C2: every placement of calcularArranjo lies in the roll: x >= 0, y >= 0,
\* x + largura <= larguraRolo, and y + altura <= the roll length when the
\* length is bounded; with an unbounded length only the width bounds it.
C2_DentroDoRolo ==
  \A k \in DOMAIN resultado :
    /\ resultado[k].x >= 0
    /\ resultado[k].y >= 0
    /\ resultado[k].x + resultado[k].largura <= larguraRolo
    /\ comprimentoMax # Infinity =>
         resultado[k].y + resultado[k].altura <= comprimentoMax

\* C2 witness: a run on a bounded roll ends with a placement that reaches
\* the right edge and one that reaches the end of the roll.
C2_Witness ==
  /\ pc = "return"
  /\ comprimentoMax # Infinity
  /\ \E k \in DOMAIN resultado :
       resultado[k].x > 0 /\ resultado[k].x + resultado[k].largura = larguraRolo
  /\ \E k \in DOMAIN resultado :
       resultado[k].y > 0 /\ resultado[k].y + resultado[k].altura = comprimentoMax

\* the (largura, altura) pairs of a sequence of placements
Dimensoes(ps) ==
  [k \in DOMAIN ps |-> [largura |-> ps[k].largura, altura |-> ps[k].altura]]

\* how many elements of the sequence s equal e
Contar(s, e) == Cardinality({k \in DOMAIN s : s[k] = e})

\* C3: when calcularArranjo finishes, every expanded instance is placed
\* exactly once or reported as unplaced in the result: per kind of instance,
\* the placed and the reported-unplaced ones add up to the expanded ones.
C3_TodasContabilizadas ==
  pc = "return" =>
    \A k \in DOMAIN Expandir(pecas) :
      LET e == Expandir(pecas)[k] IN
        Contar(Dimensoes(resultado), e) + Contar(naoColocadasInformadas, e)
          = Contar(Expandir(pecas), e)

\* C4: a run of calcularArranjo terminates for every piece list and every
\* roll: once started it returns.
C4_Termina == (pc = "sort") ~> (pc = "idle")

\* C5: scenario A: roll 1000 x 800, pieces (200x300 x2), (150x200 x3),
\* (100x100 x5): the run ends with exactly 10 placements and nothing left,
\* all inside the 1000 x 800 sheet, usedArea = 260000, totalArea = 800000 and
\* wastePercentage = 67.5.
C5_CenarioA ==
  ( /\ pc = "return"
    /\ pecas = PecasA
    /\ larguraRolo = LarguraA
    /\ comprimentoRolo = Str(ComprimentoA) )
  => /\ Len(resultado) = 10
     /\ todasPecas = <<>>
     /\ \A k \in DOMAIN resultado :
          /\ resultado[k].x >= 0
          /\ resultado[k].y >= 0
          /\ resultado[k].x + resultado[k].largura <= 1000
          /\ resultado[k].y + resultado[k].altura <= 800
     /\ AreaUsada(resultado) = 260000
     /\ AreaTotal(larguraRolo, comprimentoRolo, comprimentoTotal) = 800000
     /\ DesperdicioDecimos(AreaUsada(resultado),
                           AreaTotal(larguraRolo, comprimentoRolo,
                                     comprimentoTotal)) = 675
     /\ 675 * 800000 = 1000 * (800000 - AreaUsada(resultado))

\* C5 witness: the run of scenario A has ended with placements in two
\* shelves.
C5_Witness ==
  /\ pc = "return"
  /\ pecas = PecasA
  /\ larguraRolo = LarguraA
  /\ comprimentoRolo = Str(ComprimentoA)
  /\ \E k \in DOMAIN resultado : resultado[k].y > 0

\* C6: with an unbounded length ('' or '0') and a single instance no wider
\* than the roll, the instance is placed at (0,0) with its own width and
\* height and the consumed length is its height; for a roll of width 1200
\* and one 600x400 piece the placement is (0,0,600,400) and the consumed
\* length 400.
C6_PecaUnica ==
  /\ ( /\ pc = "return"
       /\ comprimentoRolo \in {StrVazia, Str(0)}
       /\ Len(pecas) = 1
       /\ pecas[1].quantidade = 1
       /\ pecas[1].largura <= larguraRolo )
     => /\ resultado = <<[x |-> 0, y |-> 0,
                          largura |-> pecas[1].largura,
                          altura  |-> pecas[1].altura]>>
        /\ comprimentoTotal = pecas[1].altura
  /\ ( /\ pc = "return"
       /\ comprimentoRolo \in {StrVazia, Str(0)}
       /\ pecas = PecasB
       /\ larguraRolo = 1200 )
     => /\ resultado = <<[x |-> 0, y |-> 0, largura |-> 600, altura |-> 400]>>
        /\ comprimentoTotal = 400

\* C6 witness: the run of scenario B (length typed as 0) has ended.
C6_Witness ==
  /\ pc = "return"
  /\ comprimentoRolo = Str(0)
  /\ pecas = PecasB
  /\ larguraRolo = 1200
  /\ Len(resultado) = 1

\* the scan of one shelf as a function: from index k on, with the cursor at
\* cx, the shelf at cy with height h, over the instances t left and the
\* placements res made; W is the roll width and M the length bound
RECURSIVE VarrerPrateleira(_, _, _, _, _, _, _, _)
VarrerPrateleira(t, k, cx, cy, h, res, W, M) ==
  IF k > Len(t) THEN [todas |-> t, res |-> res]
  ELSE IF cx + t[k].largura <= W
       THEN IF Leq(cy + h, M)
            THEN VarrerPrateleira(Splice(t, k), k, cx + t[k].largura, cy, h,
                                  Append(res, [x |-> cx, y |-> cy,
                                               largura |-> t[k].largura,
                                               altura  |-> t[k].altura]),
                                  W, M)
            ELSE [todas |-> t, res |-> res]
       ELSE VarrerPrateleira(t, k + 1, cx, cy, h, res, W, M)

\* the shelves as a function of the instances t left (ordered), the y of the
\* next shelf and the placements made
RECURSIVE Prateleiras(_, _, _, _, _)
Prateleiras(t, cy, res, W, M) ==
  IF t = <<>> THEN [arranjo |-> res, comprimento |-> cy]
  ELSE LET h == t[1].altura
           r == VarrerPrateleira(t, 1, 0, cy, h, res, W, M)
       IN  IF ~Leq(cy + h, M) THEN [arranjo |-> r.res, comprimento |-> cy]
           ELSE Prateleiras(r.todas, cy + h, r.res, W, M)

\* the arrangement and consumed length that the piece list ps, the roll
\* width W and the roll-length text c determine, computed from these alone
ArranjoDe(ps, W, c) ==
  Prateleiras(Ordenar(Expandir(ps)), 0, <<>>, W,
              IF Number(c) > 0 THEN Number(c) ELSE Infinity)

\* C7: the placements and the consumed length of a run are a function of its
\* input (the ordered piece list, the roll width and length) alone: every
\* run ends with the sequence and the length this function gives, whatever
\* runs were executed before and whatever they left in arranjo and
\* comprimentoUtilizado; so two runs on identical input end identically.
C7_Deterministico ==
  pc = "return" =>
    /\ resultado = ArranjoDe(pecas, larguraRolo, comprimentoRolo).arranjo
    /\ comprimentoTotal = ArranjoDe(pecas, larguraRolo, comprimentoRolo).comprimento

\* C7 witness: a run ends while the arrangement and the consumed length left
\* by an earlier run differ from its own.
C7_Witness ==
  /\ pc = "return"
  /\ arranjo # <<>>
  /\ resultado # <<>>
  /\ arranjo # resultado
  /\ comprimentoUtilizado # 0
  /\ comprimentoUtilizado # comprimentoTotal

\* the sum of the quantities of the first t piece types of ps
RECURSIVE SomaQuantidades(_, _)
SomaQuantidades(ps, t) ==
  IF t = 0 THEN 0 ELSE SomaQuantidades(ps, t - 1) + ps[t].quantidade

\* C8: the expansion (todasPecas before the sort) holds exactly
\* quantidade-many instances of each type, in type order, each with the
\* width and height of its type; quantities 2, 3, 5 give 10 instances, the
\* first 2 of the first type, the next 3 of the second, the last 5 of the
\* third.
C8_Expansao ==
  pc = "sort" =>
    /\ Len(todasPecas) = SomaQuantidades(pecas, Len(pecas))
    /\ \A t \in DOMAIN pecas :
         \A k \in (SomaQuantidades(pecas, t - 1) + 1)..SomaQuantidades(pecas, t) :
           todasPecas[k] = [largura |-> pecas[t].largura,
                            altura  |-> pecas[t].altura]
    /\ pecas = PecasA =>
         /\ Len(todasPecas) = 10
         /\ \A k \in 1..2  : todasPecas[k] = [largura |-> 200, altura |-> 300]
         /\ \A k \in 3..5  : todasPecas[k] = [largura |-> 150, altura |-> 200]
         /\ \A k \in 6..10 : todasPecas[k] = [largura |-> 100, altura |-> 100]

\* C8 witness: the list with quantities 2, 3, 5 has been expanded.
C8_Witness ==
  /\ pc = "sort"
  /\ pecas = PecasA
  /\ Len(todasPecas) = 10

RECURSIVE AreaPecas(_)
AreaPecas(s) ==
  IF s = <<>> THEN 0
  ELSE Head(s).largura * Head(s).altura + AreaPecas(Tail(s))

\* C10: at the end of a run over a roll of positive width and pieces of
\* positive dimensions, usedArea is exactly the area of the instances
\* placed (the requested area less the area left unplaced), usedArea <=
\* totalArea with totalArea = larguraRolo x roll length when bounded and
\* larguraRolo x consumed length when not, and so the waste percentage lies
\* in [0, 100].
C10_Areas ==
  (pc = "return" /\ larguraRolo > 0 /\ PecasPositivas) =>
    LET usada == AreaUsada(resultado)
        total == AreaTotal(larguraRolo, comprimentoRolo, comprimentoTotal)
    IN  /\ usada = AreaPecas(Expandir(pecas)) - AreaPecas(todasPecas)
        /\ usada <= total
        /\ total > 0
        /\ DesperdicioDecimos(usada, total) >= 0
        /\ DesperdicioDecimos(usada, total) <= 1000

\* C10 witness: a run on an unbounded roll ends with two shelves, the
\* placements filling the consumed length only in part.
C10_Witness ==
  /\ pc = "return"
  /\ comprimentoMax = Infinity
  /\ larguraRolo > 0
  /\ \E k \in DOMAIN resultado : resultado[k].y > 0
  /\ AreaUsada(resultado) > 0
  /\ AreaUsada(resultado)
       < AreaTotal(larguraRolo, comprimentoRolo, comprimentoTotal)

\* how many instances of exactly largura l and altura a the first t piece
\* types ask for
RECURSIVE QuantidadeDe(_, _, _)
QuantidadeDe(l, a, t) ==
  IF t = 0 THEN 0
  ELSE QuantidadeDe(l, a, t - 1)
         + (IF pecas[t].largura = l /\ pecas[t].altura = a
            THEN pecas[t].quantidade ELSE 0)

\* the placements ps are instances of the piece types in their own
\* orientation: per pair (largura, altura), no more placements than the
\* piece types ask instances of exactly that pair
SemRotacao(ps) ==
  \A k \in DOMAIN ps :
    Cardinality({j \in DOMAIN ps : /\ ps[j].largura = ps[k].largura
                                   /\ ps[j].altura = ps[k].altura})
      <= QuantidadeDe(ps[k].largura, ps[k].altura, Len(pecas))

\* C11: every placement carries the (largura, altura) of the piece type it
\* comes from; the swapped pair would need a type that allows rotation, and
\* the piece types of calcularArranjo carry no such permission, so no
\* placement is ever turned.
C11_RotacaoSoPermitida == SemRotacao(resultado) /\ SemRotacao(arranjo)

\* C11 witness: an instance of a type that is not square, with no type of
\* the swapped dimensions registered, has been placed.
C11_Witness ==
  /\ pc = "return"
  /\ \E t \in DOMAIN pecas :
       /\ pecas[t].largura # pecas[t].altura
       /\ \A u \in DOMAIN pecas :
            ~(pecas[u].largura = pecas[t].altura
              /\ pecas[u].altura = pecas[t].largura)
       /\ \E k \in DOMAIN resultado :
            /\ resultado[k].largura = pecas[t].largura
            /\ resultado[k].altura = pecas[t].altura

\* C12: overlapping optimize-cutting requests share no mutable state: a
\* backend run reads the configuration of its own request, and while a run
\* has not read its input yet, the input is still there as its request
\* wrote it, whatever other requests start or complete.
C12_SemEstadoCompartilhado ==
  \A k \in DOMAIN chamadas :
    /\ chamadas[k].lido # Null => chamadas[k].lido = Algum(chamadas[k].config)
    /\ chamadas[k].pythonProcess = "spawned" =>
         tempConfig = Algum(chamadas[k].config)

\* the run of the invocation k had read its input and was still going when
\* the shell stopped it
ParadaPeloShell(k) ==
  chamadas[k].lido # Null /\ chamadas[k].saida = Algum(SaidaMorto)

\* C13: running out of time is not an error: a request whose run was still
\* going when its time limit elapsed does not end rejected; it ends with the
\* best-effort result (success, is_optimal false).
C13_TempoEsgotadoNaoEErro ==
  \A k \in DOMAIN chamadas :
    (/\ ParadaPeloShell(k)
     /\ LimiteAtingido(chamadas[k].config, chamadas[k].decorrido)) =>
      /\ chamadas[k].promise.estado # "rejected"
      /\ chamadas[k].promise.estado = "resolved" =>
           chamadas[k].promise.valor = Algum(Json(TRUE, FALSE, <<>>))

\* C14: the shell enforces the request's own time_limit as the hard cap: no
\* run is stopped by the shell before the time_limit of its request has
\* elapsed, and no run is still going after it.
C14_LimiteDoPedido ==
  \A k \in DOMAIN chamadas :
    /\ ParadaPeloShell(k) =>
         LimiteAtingido(chamadas[k].config, chamadas[k].decorrido)
    /\ chamadas[k].pythonProcess \in {"spawned", "running"} =>
         chamadas[k].decorrido <= chamadas[k].config.time_limit * 1000

\* the backend run behind the page's request ended in failure: a response
\* with success=false, or an exit code that reports a failure
FalhaDoBackend(s) ==
  \/ s.code = 0 /\ s.json # Null /\ ~s.json[1].success
  \/ s.code > 0

\* the error text of a failed backend run: the error of its response, or
\* what it wrote to stderr
TextoDoErro(s) == IF s.code = 0 THEN s.json[1].error ELSE s.stderr

\* C15: a failed optimization is surfaced as an error, verbatim: once the
\* page has handled the end of a request whose backend run failed, it shows
\* no result and its error is exactly the backend's error text.
C15_FalhaVerbatim ==
  (/\ ipc # Null
   /\ ipc[1].entregue
   /\ ipc[1].saida # Null
   /\ FalhaDoBackend(ipc[1].saida[1])) =>
    /\ result = Null
    /\ error = Algum(TextoDoErro(ipc[1].saida[1]))

\* C17: every request the page submits through optimizeCutting satisfies
\* the request contract: stock_width > 0, stock_height >= 0, every piece
\* with width > 0, height > 0 and quantity >= 1, and time_limit > 0.
C17_PedidoNoContrato == ipc # Null => Contrato(ipc[1].config)

RECURSIVE Subsequencia(_, _)
Subsequencia(a, b) ==
  IF a = <<>> THEN TRUE
  ELSE IF b = <<>> THEN FALSE
  ELSE IF Head(a) = Head(b) THEN Subsequencia(Tail(a), Tail(b))
  ELSE Subsequencia(a, Tail(b))

\* the elements of s of altura h, in the order of s
DeAltura(s, h) == SelectSeq(s, LAMBDA e : e.altura = h)

\* C18: after the sort, the instances still unplaced are in height-descending
\* order and instances of equal height are in their expansion order; the
\* scan of every shelf goes through todasPecas in this order, which placing
\* an instance (removing it) keeps.
C18_OrdemDaVarredura ==
  pc \in {"while", "scan", "return"} =>
    /\ \A k \in 1..(Len(todasPecas) - 1) :
         todasPecas[k].altura >= todasPecas[k + 1].altura
    /\ \A h \in {pecas[t].altura : t \in DOMAIN pecas} :
         Subsequencia(DeAltura(todasPecas, h), DeAltura(Expandir(pecas), h))
    /\ Len(todasPecas) + Len(resultado) = SomaQuantidades(pecas, Len(pecas))

\* C18 witness: a scan is under way over instances of equal height and
\* different width, the one of the earlier type first.
C18_Witness ==
  /\ pc = "scan"
  /\ Len(pecas) = 2
  /\ pecas[1].altura = pecas[2].altura
  /\ pecas[1].largura # pecas[2].largura
  /\ \E j, k \in DOMAIN todasPecas :
       /\ j < k
       /\ todasPecas[j].largura = pecas[1].largura
       /\ todasPecas[k].largura = pecas[2].largura

\* the placements made in the open shelf
NaPrateleira == SelectSeq(resultado, LAMBDA p : p.y = y)

\* the sum of the widths of the placements ps
RECURSIVE SomaLarguras(_)
SomaLarguras(ps) ==
  IF ps = <<>> THEN 0 ELSE Head(ps).largura + SomaLarguras(Tail(ps))

\* C19: the height of a shelf is that of the tallest instance unplaced when
\* it is opened, so of the tallest among the instances it holds and those
\* left; its x-cursor starts at 0 and is the total width placed in it; every
\* instance placed in it is no taller than the shelf, and none reaches into
\* a later shelf.
C19_AlturaDaPrateleira ==
  /\ pc = "scan" =>
       /\ \A k \in DOMAIN todasPecas : todasPecas[k].altura <= shelfAltura
       /\ \A k \in DOMAIN NaPrateleira : NaPrateleira[k].altura <= shelfAltura
       /\ \/ \E k \in DOMAIN todasPecas : todasPecas[k].altura = shelfAltura
          \/ \E k \in DOMAIN NaPrateleira : NaPrateleira[k].altura = shelfAltura
       /\ x = SomaLarguras(NaPrateleira)
  /\ \A j, k \in DOMAIN resultado :
       resultado[j].y < resultado[k].y =>
         resultado[j].y + resultado[j].altura <= resultado[k].y

\* C19 witness: the second shelf is open and holds an instance, the first one
\* holding an instance shorter than itself.
C19_Witness ==
  /\ pc = "scan"
  /\ y > 0
  /\ NaPrateleira # <<>>
  /\ \E j, k \in DOMAIN resultado :
       /\ resultado[j].y = 0
       /\ resultado[k].y = 0
       /\ resultado[j].altura < resultado[k].altura

\* the width left in the shelf whose x-cursor is x
LarguraRestante == larguraRolo - x

\* C20: the scan skips an instance that does not fit and goes on to the
\* later ones: while a shelf within the length is scanned, every instance
\* the scan has passed and left unplaced is wider than the width left; so
\* when the shelf is closed and a new one is to be opened, no unplaced
\* instance has a width <= larguraRolo - x of the closed shelf.
C20_VarreEPula ==
  /\ (pc = "scan" /\ Leq(y + shelfAltura, comprimentoMax)) =>
       \A k \in DOMAIN todasPecas :
         k < i => todasPecas[k].largura > LarguraRestante
  /\ (pc = "while" /\ y > 0) =>
       \A k \in DOMAIN todasPecas : todasPecas[k].largura > LarguraRestante

\* C20 witness: in the open shelf an instance has been placed that comes
\* after a taller one the scan skipped and left unplaced.
C20_Witness ==
  /\ pc = "scan"
  /\ \E k \in DOMAIN todasPecas :
       /\ k < i
       /\ \E j \in DOMAIN NaPrateleira :
            NaPrateleira[j].altura < todasPecas[k].altura

\* h is the height of the tallest among the placements of ps at y0 or below
\* it and the instances still unplaced: the instances that were unplaced
\* when the shelf at y0 was opened
AlturaDaPrateleiraEm(ps, y0, h) ==
  /\ \A k \in DOMAIN ps : ps[k].y >= y0 => ps[k].altura <= h
  /\ \A k \in DOMAIN todasPecas : todasPecas[k].altura <= h
  /\ \/ \E k \in DOMAIN ps : ps[k].y >= y0 /\ ps[k].altura = h
     \/ \E k \in DOMAIN todasPecas : todasPecas[k].altura = h

\* C21: the placements follow the shelf layout: the first one is at (0, 0);
\* each next one is either in the same shelf, at the same y and at the
\* previous one's x + largura, or the first of the next shelf, at x = 0 and
\* at the previous y plus the height of the previous shelf; so the y of a
\* shelf is the sum of the heights of the shelves before it.
C21_LayoutDePrateleiras ==
  pc \in {"while", "scan", "return"} =>
    /\ resultado # <<>> => resultado[1].x = 0 /\ resultado[1].y = 0
    /\ \A k \in 1..(Len(resultado) - 1) :
         LET p == resultado[k]
             q == resultado[k + 1]
         IN  \/ q.y = p.y /\ q.x = p.x + p.largura
             \/ /\ q.x = 0
                /\ q.y > p.y
                /\ AlturaDaPrateleiraEm(resultado, p.y, q.y - p.y)

\* C21 witness: two shelves hold two placements each.
C21_Witness ==
  /\ pc = "return"
  /\ Len(resultado) >= 4
  /\ resultado[2].y = 0
  /\ resultado[2].x > 0
  /\ resultado[Len(resultado)].y > 0
  /\ resultado[Len(resultado)].x > 0

\* the permission to rotate of the type of an instance.  The piece types of
\* calcularArranjo carry no such field and calcularArranjo treats every
\* instance alike; in the request of the second front end every piece has
\* allow_rotation, true by default (App.tsx lines 34 and 137), so the types
\* are read as allowing rotation.
allowRotation(peca) == TRUE

\* rotating the instance peca strictly improves its fit in the open shelf:
\* as it is it does not fit the width left, turned its width fits the
\* width left and its height does not exceed the shelf height
RotacaoMelhora(peca) ==
  /\ x + peca.largura > larguraRolo
  /\ x + peca.altura <= larguraRolo
  /\ peca.largura <= shelfAltura

\* C22: during the scan of a shelf within the length, an instance whose
\* type allows rotation and whose fit rotation strictly improves is placed
\* rotated: the scan leaves no such instance behind unplaced.
C22_GiraQuandoMelhora ==
  (pc = "scan" /\ Leq(y + shelfAltura, comprimentoMax)) =>
    \A k \in DOMAIN todasPecas :
      k < i => ~(allowRotation(todasPecas[k]) /\ RotacaoMelhora(todasPecas[k]))

\* the run has stopped on a bounded roll with instances left unplaced
ParouComSobras ==
  /\ pc = "return"
  /\ Number(comprimentoRolo) > 0
  /\ todasPecas # <<>>

MaiorBordaInferior(ps, h) ==
  /\ \A k \in DOMAIN ps : ps[k].y + ps[k].altura <= h
  /\ IF ps = <<>> THEN h = 0
     ELSE \E k \in DOMAIN ps : ps[k].y + ps[k].altura = h

\* C24: when calcularArranjo finishes, the consumed length it reports
\* (comprimentoTotal, published as comprimentoUtilizado) is the largest
\* bottom edge y + altura over the placements, and 0 when there are none,
\* on a bounded and on an unbounded roll, also when an instance is too wide.
C24_ComprimentoConsumido ==
  pc = "return" => MaiorBordaInferior(resultado, comprimentoTotal)

\* how many elements of the sequence s have largura l and altura a
ContarDimensoes(s, l, a) ==
  Cardinality({k \in DOMAIN s : s[k].largura = l /\ s[k].altura = a})

\* C25: at every step of a run, the placements made so far and the
\* instances still unplaced are together exactly the expanded instances:
\* per piece type as many as the types ask for, and no others; so no
\* instance is placed twice and none leaves todasPecas without a placement.
C25_Conservacao ==
  pc # "idle" =>
    /\ Len(resultado) + Len(todasPecas) = SomaQuantidades(pecas, Len(pecas))
    /\ \A t \in DOMAIN pecas :
         ContarDimensoes(resultado, pecas[t].largura, pecas[t].altura)
           + ContarDimensoes(todasPecas, pecas[t].largura, pecas[t].altura)
           = QuantidadeDe(pecas[t].largura, pecas[t].altura, Len(pecas))

\* C25 witness: in the middle of a run over two different piece types, some
\* instances are placed and some are still unplaced.
C25_Witness ==
  /\ pc = "scan"
  /\ Len(pecas) = 2
  /\ pecas[1].largura # pecas[2].largura
  /\ Len(resultado) >= 2
  /\ Len(todasPecas) >= 2
  /\ y > 0

\* the invocation k spawned a backend process (line 72)
Gerou(k) == k \in DOMAIN chamadas /\ chamadas[k].pythonProcess # "nenhum"

\* the promise of the invocation k is settled
Liquidada(k) == chamadas[k].promise.estado # "pending"

\* what the promise of a spawning invocation holds is one of the outcomes of
\* lines 76-140: resolved with the JSON parsed from the output of a process
\* that exited with code 0, or rejected for the timer, for an output without
\* JSON, or for an exit code other than 0; a closed process leaves no
\* promise pending
DesfechoDoHandler(k) ==
  LET c == chamadas[k] IN
    /\ c.promise.estado = "resolved" =>
         /\ c.saida # Null
         /\ c.saida[1].code = 0
         /\ c.saida[1].json # Null
         /\ c.promise.valor = c.saida[1].json
    /\ c.promise.estado = "rejected" =>
         \/ c.timeout = "fired" /\ c.promise.motivo = MsgTimeout
         \/ /\ c.saida # Null
            /\ c.saida[1].code = 0
            /\ c.saida[1].json = Null
            /\ c.promise.motivo = MsgNaoProcessou
         \/ /\ c.saida # Null
            /\ c.saida[1].code # 0
            /\ c.promise.motivo = MsgErroNoPython(c.saida[1].stderr)
    /\ c.pythonProcess = "closed" => Liquidada(k)

\* a settled promise keeps its outcome in every later step
DesfechoMantido ==
  \A k \in DOMAIN chamadas :
    Liquidada(k) => chamadas'[k].promise = chamadas[k].promise

\* C26: every invocation that spawns the backend eventually settles, with
\* one of the outcomes of the handler, and once: the outcome delivered is
\* not changed by a close event after the timer fired nor by anything else.
C26_LiquidaUmaVez ==
  /\ [](\A k \in DOMAIN chamadas : Gerou(k) => DesfechoDoHandler(k))
  /\ [][DesfechoMantido]_vars
  /\ \A k \in 1..MaxChamadas : Gerou(k) ~> (Gerou(k) /\ Liquidada(k))

\* C26 witness: the timer of an invocation fired, its killed process has
\* closed afterwards, and the promise still holds the timeout rejection,
\* while another invocation was resolved with the parsed JSON.
C26_Witness ==
  \E k, j \in DOMAIN chamadas :
    /\ chamadas[k].timeout = "fired"
    /\ chamadas[k].pythonProcess = "closed"
    /\ chamadas[k].promise = Rejeitada(MsgTimeout)
    /\ chamadas[j].timeout = "cleared"
    /\ chamadas[j].promise.estado = "resolved"

\* C27: the file written for a request is removed when the process of the
\* request closes and not before: as long as the process an invocation
\* spawned has not closed, temp_config.json exists.
C27_ArquivoAteFechar ==
  \A k \in DOMAIN chamadas :
    (Gerou(k) /\ chamadas[k].pythonProcess # "closed") => tempConfig # Null

\* the last request of the page has settled and handleOptimize has run to
\* its end (lines 64-71)
PedidoEntregue == ipc # Null /\ ipc[1].entregue

\* a request of the page is in flight: handed to the shell (line 64) and
\* handleOptimize has not yet run to its end
PedidoEmVoo == ipc # Null /\ ~ipc[1].entregue

\* C28: result and error are never both non-null; while loading is true
\* both are null; after a request has settled loading is false and exactly
\* one of result and error is non-null.
C28_EstadoDoPedido ==
  /\ ~(result # Null /\ error # Null)
  /\ loading => (result = Null /\ error = Null)
  /\ PedidoEntregue => (~loading /\ ((result # Null) # (error # Null)))

\* C28 witness: a request settled with a rejection after the configuration
\* was edited: the page shows the error, no result, and is not loading.
C28_Witness ==
  /\ PedidoEntregue
  /\ ipc[1].promise.estado = "rejected"
  /\ error # Null
  /\ result = Null
  /\ ~loading
  /\ ipc[1].config # ConfigInicial

\* a step that hands a new request to the shell (line 64)
NovoPedido ==
  /\ ipc' # ipc
  /\ ipc' # Null
  /\ ipc'[1].promise = Pendente
  /\ ~ipc'[1].entregue

\* C29: the page never has two requests in flight: loading is true exactly
\* from the start of a request until handleOptimize has run to its end, and
\* a new request is handed to the shell only when none is in flight.
C29_UmPedidoPorVez ==
  /\ [](loading <=> PedidoEmVoo)
  /\ [][NovoPedido => (~loading /\ ~PedidoEmVoo)]_vars

\* C29 witness: a request is in flight, the configuration has been edited
\* since it was sent, and the page is loading, so Otimizar is disabled.
C29_Witness ==
  /\ PedidoEmVoo
  /\ loading
  /\ ipc[1].config # config
  /\ ipc[1].config # ConfigInicial

\* the stock dimensions the page hands to CuttingVisualizer (lines 316-317)
stockWidth == config.stock_width
stockHeight == config.stock_height

\* C30: whenever a result is shown, the stock dimensions handed to the
\* renderer with it are those of the request that produced the result.
C30_EstoqueDoPedido ==
  (result # Null /\ PedidoEntregue) =>
    /\ stockWidth = ipc[1].config.stock_width
    /\ stockHeight = ipc[1].config.stock_height

====
